---- MODULE Spec2Model ----
(***************************************************************************)
(* BenchmarkSpec of perfkitbenchmarker/benchmark_spec.py: the container    *)
(* that resolves the VMs, Networks and Firewall of a benchmark, prepares   *)
(* them in threaded batches, pickles itself and tears everything down.     *)
(*                                                                         *)
(* VM and Network objects live in two heaps (vmHeap, netHeap); an object's *)
(* identity is its index there.                                            *)
(***************************************************************************)
EXTENDS Integers, Sequences, FiniteSets, TLC

\* ---------------------------------------------------------------- bounds
MaxZones == 2
MaxVMs == 2
MaxDisks == 1
MaxStatic == 1
MaxCalls == 2
MaxPrepares == 1
MaxNumVms == 4
MaxSections == 2
MaxCount == 1

\* ------------------------------------------------------ program constants
None == "None"
DefaultGroup == 0
SSH_PORT == 22
GCP == "GCP"
AZURE == "Azure"
AWS == "AWS"
STANDARD == "standard"
SSD == "ssd"
IOPS == "iops"

DISK_TYPE ==
  [c \in {GCP, AWS, AZURE} |->
     IF c = GCP THEN (STANDARD :> "pd-standard") @@ (SSD :> "pd-ssd")
     ELSE IF c = AWS THEN (STANDARD :> "standard") @@ (SSD :> "gp2") @@ (IOPS :> "io1")
     ELSE (STANDARD :> "None")]

DEFAULTS ==
  [c \in {GCP, AWS, AZURE} |->
     IF c = GCP THEN [image |-> "debian-7-backports", machine_type |-> "n1-standard-1"]
     ELSE IF c = AWS THEN [image |-> "None", machine_type |-> "m3.medium"]
     ELSE [image |-> "Ubuntu-14_04-LTS", machine_type |-> "small"]]

RunStages == {"all", "run", "cleanup"}

ZoneNames == <<"z1", "z2", "z3", "z4">>
Zones == {ZoneNames[i] : i \in 1..MaxZones}
DefaultZone == ZoneNames[1]

Min(a, b) == IF a < b THEN a ELSE b

Range(f) == {f[x] : x \in DOMAIN f}

VARIABLES
  \* attributes of the BenchmarkSpec object
  cloud, zones, image, machine_type, num_vms, vms, vm_dict, networks, deleted,
  \* the VM and Network objects constructed so far, the static VM pool
  vmHeap, netHeap, static_pool,
  \* __init__: the configuration source, FLAGS.zones, the node sections, the
  \* constructor's position, the node-section workers' positions and locals
  mode, flag_zones, sections, ipc, cpc, cnet, cvms,
  \* benchmark_info and FLAGS.run_stage as last read by Delete
  benchmark_info, run_stage,
  \* the pickle file of the benchmark, the identity of the spec object in hand
  file, obj,
  \* the caller's position, the batch workers' positions, the Delete loop
  mpc, wpc, npc, nleft,
  \* the provider calls of the operation in progress and the batch result
  vmLog, netLog, fwLog, failures,
  \* the operation last called, its outcome ("none" while it runs), the number
  \* of Prepare(), Delete() and GetSpecFromFile() calls, of Prepare() calls
  op, result, ncalls, nprepares,
  \* lifecycle of each VM at the provider
  vmState

planVars == <<cloud, zones, image, machine_type, num_vms, vms, vm_dict, networks, deleted>>
heapVars == <<vmHeap, netHeap, static_pool>>
initVars == <<mode, flag_zones, sections, ipc, cpc, cnet, cvms>>
envVars == <<benchmark_info, run_stage>>
callVars == <<mpc, wpc, npc, nleft, vmLog, netLog, fwLog, failures>>
vars == <<planVars, heapVars, initVars, envVars, file, obj, callVars, op, result, ncalls, nprepares, vmState>>

\* ------------------------------------------------------------ construction

\* The static VM handed out by the pool (static_virtual_machine is a collaborator).
StaticVm ==
  [zone |-> None, machine_type |-> "static", image |-> "static", network |-> None,
   disk_specs |-> <<>>, static |-> TRUE]

GetStaticVirtualMachine(pool) == pool > 0

\* BenchmarkSpec.CreateVirtualMachine on the object under construction st;
\* the VM returned is the last element of the resulting vmHeap.
CreateVirtualMachine(st, opt_zone) ==
  IF GetStaticVirtualMachine(st.static_pool)
  THEN [st EXCEPT !.static_pool = @ - 1, !.vmHeap = Append(@, StaticVm)]
  ELSE LET zone == IF opt_zone # None THEN opt_zone ELSE st.zones[1]
           fresh == zone \notin DOMAIN st.networks
           heap == IF fresh THEN Append(st.netHeap, zone) ELSE st.netHeap
           nets == IF fresh THEN (zone :> Len(heap)) @@ st.networks ELSE st.networks
       IN [st EXCEPT !.netHeap = heap,
                     !.networks = nets,
                     !.vmHeap = Append(@, [zone |-> zone,
                                           machine_type |-> st.machine_type,
                                           image |-> st.image,
                                           network |-> nets[zone],
                                           disk_specs |-> <<>>,
                                           static |-> FALSE])]

\* self.zones[min(index, len(self.zones) - 1)], index counted from 0
ZoneWrapIndex(Z, index) == Z[(index % Len(Z)) + 1]
ZoneForIndex(Z, index) == Z[Min(index, Len(Z) - 1) + 1]

\* the list comprehension of lines 153-156, from index on
RECURSIVE BuildVms(_, _)
BuildVms(st, index) ==
  IF index >= st.num_vms THEN st
  ELSE BuildVms(CreateVirtualMachine(st, ZoneForIndex(st.zones, index)), index + 1)

\* disk.BaseDiskSpec(self.scratch_disk_size, DISK_TYPE[self.cloud][STANDARD], '/scratch%d' % i)
ScratchDiskSpec(cl, i) ==
  [size |-> "scratch_disk_size", type |-> DISK_TYPE[cl][STANDARD], mnt |-> <<"/scratch", i>>]

\* lines 158-164: every scratch disk spec is appended to every VM of self.vms
AttachScratchDisks(heap, cl, K) ==
  [v \in DOMAIN heap |->
     [heap[v] EXCEPT !.disk_specs = @ \o [i \in 1..K |-> ScratchDiskSpec(cl, i - 1)]]]

\* The object __init__ leaves behind in flag-driven mode.
FlagsPlan(cl, Z, N, K, S) ==
  LET st0 == [cloud |-> cl, zones |-> Z, num_vms |-> N,
              image |-> DEFAULTS[cl].image, machine_type |-> DEFAULTS[cl].machine_type,
              networks |-> <<>>, netHeap |-> <<>>, vmHeap |-> <<>>, static_pool |-> S]
      st1 == BuildVms(st0, 0)
  IN [st1 EXCEPT !.vmHeap = AttachScratchDisks(@, cl, K)]

\* the zone lists the lifecycle is explored from: <<z1>>, <<z1, z2>>, ...
LifeZoneLists == {[i \in 1..n |-> ZoneNames[i]] : n \in 1..MaxZones}

VmIds == DOMAIN vmHeap
NetIds == DOMAIN netHeap

Idle == [at |-> "idle", i |-> 0]
At(a) == [at |-> a, i |-> 0]

NoCall ==
  /\ mpc = "idle"
  /\ wpc = [v \in VmIds |-> Idle]
  /\ npc = [n \in NetIds |-> "idle"]
  /\ nleft = {}
  /\ vmLog = [v \in VmIds |-> <<>>]
  /\ netLog = [n \in NetIds |-> <<>>]
  /\ fwLog = <<>>
  /\ failures = {}

Init ==
  \E Z \in LifeZoneLists, N \in 0..MaxVMs, K \in 0..MaxDisks :
    LET st == FlagsPlan(GCP, Z, N, K, 0) IN
    /\ cloud = st.cloud
    /\ zones = st.zones
    /\ image = st.image
    /\ machine_type = st.machine_type
    /\ num_vms = st.num_vms
    /\ vmHeap = st.vmHeap
    /\ netHeap = st.netHeap
    /\ static_pool = st.static_pool
    /\ networks = st.networks
    /\ vms = [i \in 1..Len(st.vmHeap) |-> i]
    /\ vm_dict = [g \in {DefaultGroup} |-> [i \in 1..Len(st.vmHeap) |-> i]]
    /\ mode = "flags"
    /\ flag_zones = Z
    /\ sections = <<>>
    /\ ipc = "done"
    /\ cpc = <<>>
    /\ cnet = <<>>
    /\ cvms = <<>>
    /\ deleted = FALSE
    /\ benchmark_info = [num_machines |-> N, scratch_disk |-> K]
    /\ run_stage = "all"
    /\ file = <<>>
    /\ obj = 1
    /\ NoCall
    /\ op = "__init__"
    /\ result = "none"
    /\ nprepares = 0
    /\ ncalls = 0
    /\ vmState = [v \in DOMAIN st.vmHeap |-> "Unprovisioned"]

\* ---------------------------------------------- __init__, flag-driven mode

Clouds == {GCP, AWS, AZURE}

RECURSIVE SeqsUpTo(_, _)
SeqsUpTo(S, n) ==
  IF n = 0 THEN {<<>>}
  ELSE LET shorter == SeqsUpTo(S, n - 1)
       IN shorter \cup {Append(q, x) : q \in {r \in shorter : Len(r) = n - 1}, x \in S}

\* the part of __init__ both modes end with (lines 166-169): the firewall, the
\* file name and deleted = False; no VM of the object has been created yet
FinishInit ==
  /\ ipc' = "done"
  /\ deleted' = FALSE
  /\ wpc' = [v \in DOMAIN vmHeap' |-> Idle]
  /\ npc' = [n \in DOMAIN netHeap' |-> "idle"]
  /\ vmLog' = [v \in DOMAIN vmHeap' |-> <<>>]
  /\ netLog' = [n \in DOMAIN netHeap' |-> <<>>]
  /\ vmState' = [v \in DOMAIN vmHeap' |-> "Unprovisioned"]
  /\ UNCHANGED <<mpc, nleft, fwLog, failures, op, result, ncalls, nprepares, file, obj, envVars>>

\* what every __init__ starts from (lines 115-117) and the idle caller
InitCommon ==
  /\ vms = <<>>
  /\ vmHeap = <<>>
  /\ netHeap = <<>>
  /\ networks = <<>>
  /\ deleted = FALSE
  /\ run_stage = "all"
  /\ file = <<>>
  /\ obj = 1
  /\ NoCall
  /\ op = "__init__"
  /\ result = "none"
  /\ nprepares = 0
  /\ ncalls = 0
  /\ vmState = <<>>
  /\ cpc = <<>>
  /\ cnet = <<>>
  /\ cvms = <<>>

\* __init__ in flag-driven mode at line 153: lines 139-151 have read the flags
InitFlags ==
  \E cl \in Clouds, Z \in SeqsUpTo(Zones, MaxZones), N \in 0..MaxNumVms,
     K \in 0..MaxDisks, S \in 0..MaxStatic :
    /\ mode = "flags"
    /\ cloud = cl
    /\ flag_zones = Z
    /\ zones = IF Z # <<>> THEN Z ELSE <<DefaultZone>>
    /\ image = DEFAULTS[cl].image
    /\ machine_type = DEFAULTS[cl].machine_type
    /\ num_vms = N
    /\ benchmark_info = [num_machines |-> N, scratch_disk |-> K]
    /\ static_pool = S
    /\ sections = <<>>
    /\ vm_dict = [g \in {DefaultGroup} |-> <<>>]
    /\ ipc = "vms"
    /\ InitCommon

\* the object under construction, as CreateVirtualMachine sees it
Self ==
  [cloud |-> cloud, zones |-> zones, num_vms |-> num_vms, image |-> image,
   machine_type |-> machine_type, networks |-> networks, netHeap |-> netHeap,
   vmHeap |-> vmHeap, static_pool |-> static_pool]

\* one turn of the list comprehension of lines 153-156; index is the number of
\* VMs built so far
FlagsCreateVm ==
  /\ mode = "flags"
  /\ ipc = "vms"
  /\ Len(vmHeap) < num_vms
  /\ LET st == CreateVirtualMachine(Self, ZoneForIndex(zones, Len(vmHeap))) IN
     /\ vmHeap' = st.vmHeap
     /\ netHeap' = st.netHeap
     /\ networks' = st.networks
     /\ static_pool' = st.static_pool
  /\ UNCHANGED <<cloud, zones, image, machine_type, num_vms, vms, vm_dict, deleted,
                 mode, flag_zones, sections, ipc, cpc, cnet, cvms, envVars, file, obj,
                 callVars, op, result, ncalls, nprepares, vmState>>

\* lines 153-169 after the last VM: self.vms, vm_dict['default'], the scratch
\* disk specs, then the common end
FlagsFinish ==
  /\ mode = "flags"
  /\ ipc = "vms"
  /\ Len(vmHeap) >= num_vms
  /\ vms' = [i \in 1..Len(vmHeap) |-> i]
  /\ vm_dict' = [vm_dict EXCEPT ![DefaultGroup] = vms']
  /\ vmHeap' = AttachScratchDisks(vmHeap, cloud, benchmark_info.scratch_disk)
  /\ UNCHANGED <<cloud, zones, image, machine_type, num_vms, networks, netHeap,
                 static_pool, mode, flag_zones, sections, cpc, cnet, cvms>>
  /\ FinishInit

NextFlags == FlagsCreateVm \/ FlagsFinish

SpecFlags == InitFlags /\ [][NextFlags]_vars

\* ------------------------------------------- __init__, topology-driven mode

InSeq(x, q) == \E i \in DOMAIN q : q[i] = x

\* ','.join(values): the values with a comma between neighbours
Join(q) == [i \in 1..(2 * Len(q) - 1) |-> IF i % 2 = 1 THEN q[(i + 1) \div 2] ELSE ","]

\* node sections without a defect: the zone key is optional
RaceSections ==
  {[keys |-> {"image", "vm_type", "count"} \cup (IF z = None THEN {} ELSE {"zone"}),
    zone |-> z, image |-> i, vm_type |-> "t1", count |-> c, pds |-> <<>>] :
     z \in Zones \cup {None}, i \in {"i1", "i2"}, c \in 1..MaxCount}

SectionLists == SeqsUpTo(RaceSections, MaxSections) \ {<<>>}

\* __init__ in topology-driven mode at line 132: lines 115-131 have read the
\* cluster section and given every node section its empty group
ConfigStart(cl, cz, secs) ==
  /\ mode = "config"
  /\ cloud = cl
  /\ flag_zones = <<>>
  /\ zones = <<cz>>
  /\ image = <<>>
  /\ machine_type = <<>>
  /\ num_vms = 0
  /\ benchmark_info = [num_machines |-> 0, scratch_disk |-> 0]
  /\ static_pool = 0
  /\ sections = secs
  /\ vm_dict = [g \in {DefaultGroup} \cup DOMAIN secs |-> <<>>]
  /\ ipc = "RunThreaded"
  /\ vms = <<>>
  /\ vmHeap = <<>>
  /\ netHeap = <<>>
  /\ networks = <<>>
  /\ deleted = FALSE
  /\ run_stage = "all"
  /\ file = <<>>
  /\ obj = 1
  /\ NoCall
  /\ op = "__init__"
  /\ result = "none"
  /\ nprepares = 0
  /\ ncalls = 0
  /\ vmState = <<>>
  /\ cpc = [s \in DOMAIN secs |-> "zone"]
  /\ cnet = [s \in DOMAIN secs |-> None]
  /\ cvms = [s \in DOMAIN secs |-> <<>>]

InitConfig ==
  \E cl \in Clouds, cz \in Zones, secs \in SectionLists : ConfigStart(cl, cz, secs)

\* node sections as a topology file declares them: persistent disks
\* "<sizeGB>:<logicalType>:<mountPoint>", and sections that lack a required key
PlainSection ==
  [keys |-> {"image", "vm_type", "count"}, zone |-> None, image |-> "i1",
   vm_type |-> "t1", count |-> 1, pds |-> <<>>]

ParseSections ==
  << PlainSection,
     [PlainSection EXCEPT !.keys = @ \cup {"zone"}, !.zone = ZoneNames[2],
                          !.image = "i2", !.count = MaxCount + 1,
                          !.pds = << [size |-> 10, type |-> STANDARD, mnt |-> "/mnt1"],
                                     [size |-> 20, type |-> SSD, mnt |-> "/mnt2"] >>],
     [PlainSection EXCEPT !.keys = @ \ {"image"}],
     [PlainSection EXCEPT !.keys = @ \ {"vm_type"}],
     [PlainSection EXCEPT !.keys = @ \ {"count"}] >>

\* the topologies resolved: up to MaxSections of these sections; the workers all
\* start together, so a permutation of a file's sections only renames the groups
\* and one order per choice of sections is explored
ParseLists ==
  UNION {{[i \in 1..n |-> ParseSections[f[i]]] :
            f \in {g \in [1..n -> DOMAIN ParseSections] :
                     \A i \in 1..(n - 1) : g[i] <= g[i + 1]}} : n \in 1..MaxSections}

InitParse ==
  \E cl \in Clouds, secs \in ParseLists :
    ConfigStart(cl, DefaultZone, secs)

\* line 223: node_section['zone'] if 'zone' in node_section else self.zones[0]
SectionZone(s) == IF "zone" \in sections[s].keys THEN sections[s].zone ELSE zones[1]

\* what no statement of CreateVirtualMachineFromNodeSection touches
nodeFrame ==
  <<cloud, num_vms, deleted, static_pool, mode, flag_zones, sections, ipc, envVars,
    file, obj, callVars, op, result, ncalls, nprepares, vmState>>

NodeAt(s, at) == mode = "config" /\ ipc = "RunThreaded" /\ cpc[s] = at
NodeGoto(s, at) == cpc' = [cpc EXCEPT ![s] = at]

\* line 224: if zone not in self.zones
NodeZone(s) ==
  /\ NodeAt(s, "zone")
  /\ NodeGoto(s, IF InSeq(SectionZone(s), zones) THEN "image" ELSE "zones.append")
  /\ UNCHANGED <<zones, image, machine_type, vms, vm_dict, networks, vmHeap, netHeap,
                 cnet, cvms, nodeFrame>>

\* line 225: self.zones.append(zone)
NodeZoneAppend(s) ==
  /\ NodeAt(s, "zones.append")
  /\ zones' = Append(zones, SectionZone(s))
  /\ NodeGoto(s, "image")
  /\ UNCHANGED <<image, machine_type, vms, vm_dict, networks, vmHeap, netHeap,
                 cnet, cvms, nodeFrame>>

\* line 226: if node_section['image'] not in self.image (KeyError without the key)
NodeImage(s) ==
  /\ NodeAt(s, "image")
  /\ NodeGoto(s, IF "image" \notin sections[s].keys THEN "failed"
                 ELSE IF InSeq(sections[s].image, image) THEN "vm_type"
                 ELSE "image.append")
  /\ UNCHANGED <<zones, image, machine_type, vms, vm_dict, networks, vmHeap, netHeap,
                 cnet, cvms, nodeFrame>>

\* line 227: self.image.append(node_section['image'])
NodeImageAppend(s) ==
  /\ NodeAt(s, "image.append")
  /\ image' = Append(image, sections[s].image)
  /\ NodeGoto(s, "vm_type")
  /\ UNCHANGED <<zones, machine_type, vms, vm_dict, networks, vmHeap, netHeap,
                 cnet, cvms, nodeFrame>>

\* line 228: if node_section['vm_type'] not in self.machine_type
NodeVmType(s) ==
  /\ NodeAt(s, "vm_type")
  /\ NodeGoto(s, IF "vm_type" \notin sections[s].keys THEN "failed"
                 ELSE IF InSeq(sections[s].vm_type, machine_type) THEN "networks"
                 ELSE "machine_type.append")
  /\ UNCHANGED <<zones, image, machine_type, vms, vm_dict, networks, vmHeap, netHeap,
                 cnet, cvms, nodeFrame>>

\* line 229: self.machine_type.append(node_section['vm_type'])
NodeVmTypeAppend(s) ==
  /\ NodeAt(s, "machine_type.append")
  /\ machine_type' = Append(machine_type, sections[s].vm_type)
  /\ NodeGoto(s, "networks")
  /\ UNCHANGED <<zones, image, vms, vm_dict, networks, vmHeap, netHeap,
                 cnet, cvms, nodeFrame>>

\* line 230: if zone not in self.networks
NodeNetwork(s) ==
  /\ NodeAt(s, "networks")
  /\ NodeGoto(s, IF SectionZone(s) \in DOMAIN networks THEN "vm_spec" ELSE "networks.set")
  /\ UNCHANGED <<zones, image, machine_type, vms, vm_dict, networks, vmHeap, netHeap,
                 cnet, cvms, nodeFrame>>

\* lines 231-232: self.networks[zone] = network_class(zone)
NodeNetworkSet(s) ==
  /\ NodeAt(s, "networks.set")
  /\ netHeap' = Append(netHeap, SectionZone(s))
  /\ networks' = [z \in DOMAIN networks \cup {SectionZone(s)} |->
                    IF z = SectionZone(s) THEN Len(netHeap') ELSE networks[z]]
  /\ NodeGoto(s, "vm_spec")
  /\ UNCHANGED <<zones, image, machine_type, vms, vm_dict, vmHeap, cnet, cvms, nodeFrame>>

\* lines 233-238: the vm_spec, with self.networks[zone] as it is now
NodeVmSpec(s) ==
  /\ NodeAt(s, "vm_spec")
  /\ cnet' = [cnet EXCEPT ![s] = networks[SectionZone(s)]]
  /\ NodeGoto(s, "vms")
  /\ UNCHANGED <<zones, image, machine_type, vms, vm_dict, networks, vmHeap, netHeap,
                 cvms, nodeFrame>>

\* lines 239-241: count VMs of the vm_spec, then self.vms.extend(vms)
NodeVms(s) ==
  /\ NodeAt(s, "vms")
  /\ IF "count" \notin sections[s].keys
     THEN NodeGoto(s, "failed") /\ UNCHANGED <<vms, vmHeap, cvms>>
     ELSE LET built == [i \in 1..sections[s].count |->
                          [zone |-> SectionZone(s),
                           machine_type |-> sections[s].vm_type,
                           image |-> sections[s].image,
                           network |-> cnet[s],
                           disk_specs |-> <<>>,
                           static |-> FALSE]]
              ids == [i \in 1..sections[s].count |-> Len(vmHeap) + i]
          IN /\ vmHeap' = vmHeap \o built
             /\ vms' = vms \o ids
             /\ cvms' = [cvms EXCEPT ![s] = ids]
             /\ NodeGoto(s, "vm_dict")
  /\ UNCHANGED <<zones, image, machine_type, vm_dict, networks, netHeap, cnet, nodeFrame>>

\* line 242: self.vm_dict[node_name].extend(vms)
NodeVmDictDefault(s) ==
  /\ NodeAt(s, "vm_dict")
  /\ vm_dict' = [vm_dict EXCEPT ![DefaultGroup] = @ \o cvms[s]]
  /\ NodeGoto(s, "disks")
  /\ UNCHANGED <<zones, image, machine_type, vms, networks, vmHeap, netHeap,
                 cnet, cvms, nodeFrame>>
NodeVmDict(s) ==
  /\ NodeAt(s, "vm_dict")
  /\ vm_dict' = [vm_dict EXCEPT ![s] = @ \o cvms[s]]
  /\ NodeGoto(s, "disks")
  /\ UNCHANGED <<zones, image, machine_type, vms, networks, vmHeap, netHeap,
                 cnet, cvms, nodeFrame>>

\* the first persistent-disk option whose logical type the cloud has no entry for
FirstUnsupported(pds, cl) ==
  LET bad == {i \in DOMAIN pds : pds[i].type \notin DOMAIN DISK_TYPE[cl]}
  IN IF bad = {} THEN Len(pds) + 1 ELSE CHOOSE i \in bad : \A j \in bad : i <= j

\* lines 244-252: one disk spec per persistent-disk option, appended to every VM
\* of the section; DISK_TYPE[self.cloud][disk_type] raises KeyError
NodeDisksOfAllVms(s) ==
  /\ NodeAt(s, "disks")
  /\ LET pds == sections[s].pds
         stop == FirstUnsupported(pds, cloud)
         specs == [i \in 1..(stop - 1) |->
                     [size |-> pds[i].size, type |-> DISK_TYPE[cloud][pds[i].type],
                      mnt |-> pds[i].mnt]]
     IN /\ vmHeap' = [v \in DOMAIN vmHeap |-> [vmHeap[v] EXCEPT !.disk_specs = @ \o specs]]
        /\ NodeGoto(s, IF stop <= Len(pds) THEN "failed" ELSE "done")
  /\ UNCHANGED <<zones, image, machine_type, vms, vm_dict, networks, netHeap,
                 cnet, cvms, nodeFrame>>
NodeDisks(s) ==
  /\ NodeAt(s, "disks")
  /\ LET pds == sections[s].pds
         stop == FirstUnsupported(pds, cloud)
         specs == [i \in 1..(stop - 1) |->
                     [size |-> pds[i].size, type |-> DISK_TYPE[cloud][pds[i].type],
                      mnt |-> pds[i].mnt]]
     IN /\ vmHeap' = [v \in DOMAIN vmHeap |->
                        IF InSeq(v, cvms[s])
                        THEN [vmHeap[v] EXCEPT !.disk_specs = @ \o specs]
                        ELSE vmHeap[v]]
        /\ NodeGoto(s, IF stop <= Len(pds) THEN "failed" ELSE "done")
  /\ UNCHANGED <<zones, image, machine_type, vms, vm_dict, networks, netHeap,
                 cnet, cvms, nodeFrame>>

\* lines 134-137 and 166-169, once RunThreaded has returned
ConfigFinish ==
  /\ mode = "config"
  /\ ipc = "RunThreaded"
  /\ \A s \in DOMAIN cpc : cpc[s] \in {"done", "failed"}
  /\ num_vms' = Len(vms)
  /\ image' = Join(image)
  /\ zones' = Join(zones)
  /\ machine_type' = Join(machine_type)
  /\ UNCHANGED <<cloud, vms, vm_dict, networks, vmHeap, netHeap, static_pool,
                 mode, flag_zones, sections, cpc, cnet, cvms>>
  /\ FinishInit

NextTopology ==
  \/ \E s \in DOMAIN sections : NodeZone(s)
  \/ \E s \in DOMAIN sections : NodeZoneAppend(s)
  \/ \E s \in DOMAIN sections : NodeImage(s)
  \/ \E s \in DOMAIN sections : NodeImageAppend(s)
  \/ \E s \in DOMAIN sections : NodeVmType(s)
  \/ \E s \in DOMAIN sections : NodeVmTypeAppend(s)
  \/ \E s \in DOMAIN sections : NodeNetwork(s)
  \/ \E s \in DOMAIN sections : NodeNetworkSet(s)
  \/ \E s \in DOMAIN sections : NodeVmSpec(s)
  \/ \E s \in DOMAIN sections : NodeVms(s)
  \/ \E s \in DOMAIN sections : NodeVmDict(s)
  \/ \E s \in DOMAIN sections : NodeDisks(s)
  \/ ConfigFinish

SpecTopology == InitConfig /\ [][NextTopology]_vars

SpecParse == InitParse /\ [][NextTopology]_vars

\* ------------------------------------------------ the threaded batch runner

\* perfkitbenchmarker_lib.RunThreaded(target, items): one worker per item, each
\* started at the target's first statement; workers of ids outside the batch idle.
RunThreaded(ids, items, first, idle) == [x \in ids |-> IF x \in items THEN first ELSE idle]

\* RunThreaded returns once every worker has returned or raised
Joined(pcs, finished) == \A x \in DOMAIN pcs : pcs[x] \in finished

Done == At("done")
Failed == At("failed")

VmJoined == Joined(wpc, {Idle, Done, Failed})
NetJoined == Joined(npc, {"idle", "done", "failed"})

\* the per-item failures RunThreaded hands back
VmFailures == {<<"vm", v>> : v \in {x \in VmIds : wpc[x] = Failed}}
NetFailures == {<<"network", n>> : n \in {x \in NetIds : npc[x] = "failed"}}

\* the locals of an operation are gone when it returns or raises
Return(outcome) ==
  /\ mpc' = "idle"
  /\ wpc' = [v \in VmIds |-> Idle]
  /\ npc' = [n \in NetIds |-> "idle"]
  /\ nleft' = {}
  /\ vmLog' = [v \in VmIds |-> <<>>]
  /\ netLog' = [n \in NetIds |-> <<>>]
  /\ fwLog' = <<>>
  /\ failures' = {}
  /\ result' = outcome

\* the items of the VM batches: [... for vm in self.vms] (line 177), self.vms (line 184)
VmSetButOne == Range(vms) \ {vms[1]}
VmSet == Range(vms)

\* ------------------------------------------------------------------ Prepare

\* line 174: prepare_args = [self.networks[zone] for zone in self.networks]
NetworkBatchButOne(nets) == Range(nets) \ {nets[CHOOSE z \in DOMAIN nets : TRUE]}
NetworkBatch(nets) == Range(nets)

\* Prepare(), up to the start of its first batch
PrepareCall ==
  /\ ipc = "done"
  /\ mpc = "idle"
  /\ ncalls < MaxCalls
  /\ nprepares < MaxPrepares
  /\ ncalls' = ncalls + 1
  /\ nprepares' = nprepares + 1
  /\ op' = "Prepare"
  /\ IF DOMAIN networks # {}
     THEN /\ mpc' = "PrepareNetwork"
          /\ npc' = RunThreaded(NetIds, NetworkBatch(networks), "Create", "idle")
          /\ UNCHANGED wpc
     ELSE /\ mpc' = "PrepareVms"
          /\ UNCHANGED <<wpc, npc>>
  /\ result' = "none"
  /\ UNCHANGED <<planVars, heapVars, initVars, envVars, file, obj, nleft, vmLog, netLog, fwLog,
                 failures, vmState>>

\* PrepareNetwork(network): network.Create() returns or raises
PrepareNetwork(n) ==
  /\ mpc = "PrepareNetwork"
  /\ npc[n] = "Create"
  /\ netLog' = [netLog EXCEPT ![n] = Append(@, "Create")]
  /\ \/ npc' = [npc EXCEPT ![n] = "done"]
     \/ npc' = [npc EXCEPT ![n] = "failed"]
  /\ UNCHANGED <<planVars, heapVars, initVars, envVars, file, obj, mpc, wpc, nleft, vmLog, fwLog,
                 failures, op, result, ncalls, nprepares, vmState>>

\* the Network batch has finished: RunThreaded returns its failures
PrepareNetworkJoin ==
  /\ mpc = "PrepareNetwork"
  /\ NetJoined
  /\ failures' = NetFailures
  /\ mpc' = "PrepareVms"
  /\ UNCHANGED <<planVars, heapVars, initVars, envVars, file, obj, wpc, npc, nleft, vmLog,
                 netLog, fwLog, op, result, ncalls, nprepares, vmState>>

\* lines 176-178: what the Network batch returned is dropped; if self.vms:
\* RunThreaded(self.PrepareVm, [((vm, self.firewall), {}) for vm in self.vms])
PrepareVms ==
  /\ mpc = "PrepareVms"
  /\ failures' = {}
  /\ npc' = [n \in NetIds |-> "idle"]
  /\ IF vms # <<>>
     THEN /\ mpc' = "PrepareVm"
          /\ wpc' = RunThreaded(VmIds, VmSet, At("Create"), Idle)
     ELSE /\ mpc' = "PrepareReturn"
          /\ UNCHANGED wpc
  /\ UNCHANGED <<planVars, heapVars, initVars, envVars, file, obj, nleft, vmLog, netLog,
                 fwLog, op, result, ncalls, nprepares, vmState>>

\* the statement of PrepareVm that follows the call at position c
PrepareVmSwapped(v, c) ==
  IF c.at = "Create" THEN At("WaitForBootCompletion")
  ELSE IF c.at = "WaitForBootCompletion" THEN At("booting")
  ELSE IF c.at = "booting" THEN At("AllowPort")
  ELSE IF c.at = "AllowPort" THEN At("in AllowPort")
  ELSE IF c.at = "in AllowPort" THEN At("AptUpdate")
  ELSE IF c.at \in {"AptUpdate", "CreateScratchDisk"}
  THEN IF c.i < Len(vmHeap[v].disk_specs)
       THEN [at |-> "CreateScratchDisk", i |-> c.i + 1]
       ELSE At("BurnCpu")
  ELSE Done
PrepareVmNoWarmUp(v, c) ==
  IF c.at = "Create" THEN At("AllowPort")
  ELSE IF c.at = "AllowPort" THEN At("in AllowPort")
  ELSE IF c.at = "in AllowPort" THEN At("WaitForBootCompletion")
  ELSE IF c.at = "WaitForBootCompletion" THEN At("booting")
  ELSE IF c.at = "booting" THEN At("AptUpdate")
  ELSE IF c.at \in {"AptUpdate", "CreateScratchDisk"} /\ c.i < Len(vmHeap[v].disk_specs)
  THEN [at |-> "CreateScratchDisk", i |-> c.i + 1]
  ELSE Done
PrepareVmNext(v, c) ==
  IF c.at = "Create" THEN At("AllowPort")
  ELSE IF c.at = "AllowPort" THEN At("in AllowPort")
  ELSE IF c.at = "in AllowPort" THEN At("WaitForBootCompletion")
  ELSE IF c.at = "WaitForBootCompletion" THEN At("booting")
  ELSE IF c.at = "booting" THEN At("AptUpdate")
  ELSE IF c.at \in {"AptUpdate", "CreateScratchDisk"}
  THEN IF c.i < Len(vmHeap[v].disk_specs)
       THEN [at |-> "CreateScratchDisk", i |-> c.i + 1]
       ELSE At("BurnCpu")
  ELSE Done

\* what the call at position c is, as the provider sees it
PrepareVmOp(v, c) ==
  IF c.at = "AllowPort" THEN <<"AllowPort", SSH_PORT>>
  ELSE IF c.at = "CreateScratchDisk" THEN <<"CreateScratchDisk", vmHeap[v].disk_specs[c.i].mnt>>
  ELSE <<c.at>>

\* the VM's lifecycle state once the call at position c has had its effect
VmStateAfter(c, st) ==
  IF c.at = "Create" THEN "Created"
  ELSE IF c.at = "WaitForBootCompletion" THEN "BootWaiting"
  ELSE IF c.at = "BurnCpu" THEN "Prepared"
  ELSE st

\* the calls a worker is seen inside of: firewall.AllowPort(vm, SSH_PORT) on the
\* plan's one firewall, and vm.WaitForBootCompletion(), which blocks
Entered == [AllowPort |-> "in AllowPort", WaitForBootCompletion |-> "booting"]

\* PrepareVm(vm, firewall): the worker of vm makes its next call, which returns
\* or raises; a call of Entered is entered in one step and left in another
PrepareVm(v) ==
  /\ mpc = "PrepareVm"
  /\ wpc[v].at \notin {"idle", "done", "failed"}
  /\ LET c == wpc[v] IN
     /\ vmLog' = [vmLog EXCEPT ![v] = IF c.at \in Range(Entered) THEN @
                                       ELSE Append(@, PrepareVmOp(v, c))]
     /\ \/ /\ wpc' = [wpc EXCEPT ![v] = PrepareVmNext(v, c)]
           /\ vmState' = [vmState EXCEPT ![v] = VmStateAfter(c, @)]
        \/ /\ c.at \notin DOMAIN Entered
           /\ wpc' = [wpc EXCEPT ![v] = Failed]
           /\ UNCHANGED vmState
  /\ UNCHANGED <<planVars, heapVars, initVars, envVars, file, obj, mpc, npc, nleft, netLog, fwLog,
                 failures, op, result, ncalls, nprepares>>

\* the VM batch has finished
PrepareVmJoin ==
  /\ mpc = "PrepareVm"
  /\ VmJoined
  /\ failures' = VmFailures
  /\ mpc' = "PrepareReturn"
  /\ UNCHANGED <<planVars, heapVars, initVars, envVars, file, obj, wpc, npc, nleft, vmLog, netLog,
                 fwLog, op, result, ncalls, nprepares, vmState>>

\* Prepare() returns; it hands nothing back and keeps self.vms as it was
PrepareReturnDroppingFailed ==
  /\ mpc = "PrepareReturn"
  /\ Return("Prepare")
  /\ LET Kept(v) == wpc[v] # Failed IN vms' = SelectSeq(vms, Kept)
  /\ UNCHANGED <<cloud, zones, image, machine_type, num_vms, vm_dict, networks, deleted,
                 heapVars, initVars, envVars, file, obj, op, ncalls, nprepares, vmState>>
PrepareReturn ==
  /\ mpc = "PrepareReturn"
  /\ Return("Prepare")
  /\ UNCHANGED <<planVars, heapVars, initVars, envVars, file, obj, op, ncalls, nprepares, vmState>>

\* ------------------------------------------------------------------- Delete

\* line 181: FLAGS.run_stage not in ['all', 'cleanup'] or self.deleted
DeleteSkipsIgnoringDeleted(stage, del) == stage \notin {"all", "cleanup"}
DeleteSkipsIgnoringStage(stage, del) == del
DeleteSkips(stage, del) == stage \notin {"all", "cleanup"} \/ del

\* Delete(), up to the start of the VM batch
DeleteCall(stage) ==
  /\ ipc = "done"
  /\ mpc = "idle"
  /\ ncalls < MaxCalls
  /\ ncalls' = ncalls + 1
  /\ op' = "Delete"
  /\ run_stage' = stage
  /\ IF DeleteSkips(stage, deleted)
     THEN /\ result' = "DeleteSkipped"
          /\ UNCHANGED <<mpc, wpc>>
     ELSE /\ IF vms # <<>>
             THEN /\ mpc' = "DeleteVm"
                  /\ wpc' = RunThreaded(VmIds, VmSet, At("Delete"), Idle)
             ELSE /\ mpc' = "DisallowAllPorts"
                  /\ UNCHANGED wpc
          /\ result' = "none"
  /\ UNCHANGED <<planVars, heapVars, initVars, benchmark_info, file, obj, nprepares, npc, nleft, vmLog, netLog,
                 fwLog, failures, vmState>>

\* the statement of DeleteVm that follows the call at position c
DeleteVmNoScratchDisks(c) == Done
DeleteVmNext(c) == IF c.at = "Delete" THEN At("DeleteScratchDisks") ELSE Done

\* DeleteVm(vm): vm.Delete(), then vm.DeleteScratchDisks(); either may raise
DeleteVm(v) ==
  /\ mpc = "DeleteVm"
  /\ wpc[v].at \in {"Delete", "DeleteScratchDisks"}
  /\ vmLog' = [vmLog EXCEPT ![v] = Append(@, <<wpc[v].at>>)]
  /\ \/ /\ wpc' = [wpc EXCEPT ![v] = DeleteVmNext(wpc[v])]
        /\ vmState' = [vmState EXCEPT ![v] = IF wpc[v].at = "Delete" THEN "Deleted" ELSE @]
     \/ /\ wpc' = [wpc EXCEPT ![v] = Failed]
        /\ UNCHANGED vmState
  /\ UNCHANGED <<planVars, heapVars, initVars, envVars, file, obj, mpc, npc, nleft, netLog, fwLog,
                 failures, op, result, ncalls, nprepares>>

\* the VM batch has finished; its failures are handed back and not looked at
DeleteVmJoin ==
  /\ mpc = "DeleteVm"
  /\ VmJoined
  /\ failures' = VmFailures
  /\ mpc' = "DisallowAllPorts"
  /\ UNCHANGED <<planVars, heapVars, initVars, envVars, file, obj, wpc, npc, nleft, vmLog, netLog,
                 fwLog, op, result, ncalls, nprepares, vmState>>

\* self.firewall.DisallowAllPorts(): returns, or raises out of Delete
DisallowAllPorts ==
  /\ mpc = "DisallowAllPorts"
  /\ \/ /\ mpc' = "NetworkDelete"
        /\ nleft' = DOMAIN networks
        /\ fwLog' = Append(fwLog, "DisallowAllPorts")
        /\ UNCHANGED <<wpc, npc, vmLog, netLog, failures, result>>
     \/ Return("DeleteRaised")
  /\ UNCHANGED <<planVars, heapVars, initVars, envVars, file, obj, op, ncalls, nprepares, vmState>>

\* for zone in self.networks: self.networks[zone].Delete(), in the dict's order
NetworkDelete(zone) ==
  /\ mpc = "NetworkDelete"
  /\ zone \in nleft
  /\ \/ /\ nleft' = nleft \ {zone}
        /\ netLog' = [netLog EXCEPT ![networks[zone]] = Append(@, "Delete")]
        /\ UNCHANGED <<mpc, wpc, npc, vmLog, fwLog, failures, result>>
     \/ Return("DeleteRaised")
  /\ UNCHANGED <<planVars, heapVars, initVars, envVars, file, obj, op, ncalls, nprepares, vmState>>

\* line 188: self.deleted = True
DeleteFinish ==
  /\ mpc = "NetworkDelete"
  /\ nleft = {}
  /\ deleted' = TRUE
  /\ mpc' = "DeleteReturn"
  /\ UNCHANGED <<cloud, zones, image, machine_type, num_vms, vms, vm_dict, networks,
                 heapVars, initVars, envVars, file, obj, wpc, npc, nleft, vmLog, netLog, fwLog,
                 failures, op, result, ncalls, nprepares, vmState>>

DeleteReturn ==
  /\ mpc = "DeleteReturn"
  /\ Return("Delete")
  /\ UNCHANGED <<planVars, heapVars, initVars, envVars, file, obj, op, ncalls, nprepares, vmState>>

\* --------------------------------------------------------------- the pickle

\* pickle.dump(self, pickle_file, 2): every attribute of the object, the VM and
\* Network objects it refers to included
PickledAsNew ==
  [cloud |-> cloud, zones |-> zones, image |-> image, machine_type |-> machine_type,
   num_vms |-> num_vms, vms |-> vms, vm_dict |-> vm_dict, networks |-> networks,
   deleted |-> FALSE]
Pickled ==
  [cloud |-> cloud, zones |-> zones, image |-> image, machine_type |-> machine_type,
   num_vms |-> num_vms, vms |-> vms, vm_dict |-> vm_dict, networks |-> networks,
   deleted |-> deleted]

PickleSpec ==
  /\ ipc = "done"
  /\ mpc = "idle"
  /\ op' = "PickleSpec"
  /\ file' = <<Pickled>>
  /\ result' = "PickleSpec"
  /\ UNCHANGED <<planVars, heapVars, initVars, envVars, obj, callVars, ncalls, nprepares, vmState>>

\* line 298: pickle.load builds a new object; the caller's old one is untouched
LoadedInPlace(o) == o
LoadedObject(o) == o + 1

\* GetSpecFromFile(name): the unpickled object is another BenchmarkSpec; a name
\* with no file under it makes open() raise, which is logged and raised again
GetSpecFromFile(sameName) ==
  /\ ipc = "done"
  /\ mpc = "idle"
  /\ ncalls < MaxCalls
  /\ ncalls' = ncalls + 1
  /\ op' = "GetSpecFromFile"
  /\ IF sameName /\ file # <<>>
     THEN /\ cloud' = file[1].cloud
          /\ zones' = file[1].zones
          /\ image' = file[1].image
          /\ machine_type' = file[1].machine_type
          /\ num_vms' = file[1].num_vms
          /\ vms' = file[1].vms
          /\ vm_dict' = file[1].vm_dict
          /\ networks' = file[1].networks
          /\ deleted' = file[1].deleted
          /\ obj' = LoadedObject(obj)
          /\ result' = "GetSpecFromFile"
     ELSE /\ result' = "GetSpecFromFileRaised"
          /\ UNCHANGED <<planVars, obj>>
  /\ UNCHANGED <<heapVars, initVars, envVars, file, callVars, nprepares, vmState>>

Next ==
  \/ PrepareCall
  \/ \E n \in NetIds : PrepareNetwork(n)
  \/ PrepareNetworkJoin
  \/ PrepareVms
  \/ \E v \in VmIds : PrepareVm(v)
  \/ PrepareVmJoin
  \/ PrepareReturn
  \/ \E stage \in RunStages : DeleteCall(stage)
  \/ \E v \in VmIds : DeleteVm(v)
  \/ DeleteVmJoin
  \/ DisallowAllPorts
  \/ \E zone \in Zones : NetworkDelete(zone)
  \/ DeleteFinish
  \/ DeleteReturn
  \/ PickleSpec
  \/ \E sameName \in BOOLEAN : GetSpecFromFile(sameName)

Spec == Init /\ [][Next]_vars

\* =================================================================== claims

Eligible == {"all", "cleanup"}

IsPrefix(a, b) == Len(a) <= Len(b) /\ \A i \in 1..Len(a) : a[i] = b[i]

\* a Delete() call is made in this step
DeleteCalled == op' = "Delete" /\ ncalls' = ncalls + 1

\* the step calls no provider operation and leaves the plan, the objects, the
\* pickle file and every VM as they were
NothingDone ==
  /\ mpc' = "idle"
  /\ UNCHANGED <<planVars, heapVars, file, obj, callVars, vmState>>

\* the calls PrepareVm makes for VM v, in the order of lines 261-269
ExpectedPrepare(v) ==
  << <<"Create">>, <<"AllowPort", 22>>, <<"WaitForBootCompletion">>, <<"AptUpdate">> >>
  \o [i \in 1..Len(vmHeap[v].disk_specs) |-> <<"CreateScratchDisk", vmHeap[v].disk_specs[i].mnt>>]
  \o << <<"BurnCpu">> >>

FailedVms == {v \in VmSet : wpc[v] = Failed}

\* C1: once a Delete() in a cleanup-eligible stage has set deleted, a further
\* Delete() in such a stage returns at once: it starts no batch, calls no VM,
\* firewall or Network operation and changes nothing of the plan.
C1_DeleteIdempotent ==
  [][(DeleteCalled /\ deleted /\ run_stage' \in Eligible) => NothingDone]_vars

\* C1 witness: a plan with VMs was torn down and Delete() was called again on it
C1_Witness ==
  /\ obj = 1 /\ deleted /\ vms # <<>>
  /\ op = "Delete" /\ result = "DeleteSkipped" /\ run_stage \in Eligible

\* C2: a Delete() in a cleanup-eligible stage that follows a Delete() which
\* failed part-way (the firewall revoke or a Network delete raised) is a no-op.
C2_DeleteIdempotentAfterFailure ==
  [][(DeleteCalled /\ result = "DeleteRaised" /\ run_stage' \in Eligible) => NothingDone]_vars

\* C3: when exactly one VM of a Prepare batch fails, the batch result names
\* that VM and no other, the VM made no call after the one that raised, and
\* every other VM made all its calls and is Prepared.
C3_PartialFailureIsolated ==
  (mpc = "PrepareReturn" /\ Cardinality(FailedVms) = 1) =>
    \A v \in VmSet :
      IF v \in FailedVms
      THEN /\ failures = {<<"vm", v>>}
           /\ vmLog[v] # <<>>
           /\ IsPrefix(vmLog[v], ExpectedPrepare(v))
      ELSE /\ wpc[v] = Done
           /\ vmLog[v] = ExpectedPrepare(v)
           /\ vmState[v] = "Prepared"

\* C3 witness: one of two VMs failed at boot-wait, the batch has returned
C3_Witness ==
  /\ mpc = "PrepareReturn" /\ Len(vms) >= 2
  /\ \E v \in VmSet :
       /\ FailedVms = {v}
       /\ vmLog[v][Len(vmLog[v])] = <<"WaitForBootCompletion">>
       /\ vmState[v] = "BootWaiting"

\* C4: no zone ever has two Network objects constructed for it.
C4_NetworkMemoized ==
  \A z \in Zones : Cardinality({n \in DOMAIN netHeap : netHeap[n] = z}) <= 1

\* C5: deleted is false after construction, and no step that keeps the object
\* in hand takes deleted from true to false.
C5_DeletedMonotonic ==
  /\ (ncalls = 0 => ~deleted)
  /\ [][(obj' = obj /\ deleted) => deleted']_vars

\* C5 witness: Prepare() ran to its end on a deleted plan, which is still deleted
C5_Witness == obj = 1 /\ deleted /\ op = "Prepare" /\ result = "Prepare"

\* C6: the VM built at index i (counted from 0) has zone Z[i] while i < len(Z)
\* and the last zone of Z from then on.
C6_ZoneAssignment ==
  mode = "flags" =>
    \A n \in DOMAIN vmHeap :
      ~vmHeap[n].static =>
        vmHeap[n].zone = IF n <= Len(zones) THEN zones[n] ELSE zones[Len(zones)]

\* C6 witness: two different zones and a VM built beyond the end of the list
C6_Witness ==
  /\ ipc = "done" /\ Len(zones) = 2 /\ zones[1] # zones[2]
  /\ Len(vmHeap) >= 4 /\ ~vmHeap[3].static /\ ~vmHeap[4].static

\* C7: a Delete() in a stage other than 'all' and 'cleanup' starts no batch,
\* calls no VM, firewall or Network operation and leaves deleted, the VMs and
\* the Network map as they were.
C7_DeleteOutsideCleanupStage ==
  [][(DeleteCalled /\ run_stage' \notin Eligible) => NothingDone]_vars

\* C7 witness: Delete() was called in stage 'run' on a plan with VMs, which is
\* still not deleted
C7_Witness ==
  /\ op = "Delete" /\ result = "DeleteSkipped" /\ run_stage = "run"
  /\ ~deleted /\ vms # <<>>

\* C8: the calls a VM's PrepareVm has made so far are always the first calls of
\* Create, AllowPort(22), WaitForBootCompletion, AptUpdate, one
\* CreateScratchDisk per disk spec in the specs' order, BurnCpu.
C8_PrepareVmOrder ==
  op = "Prepare" => \A v \in VmIds : IsPrefix(vmLog[v], ExpectedPrepare(v))

\* C8 witness: a VM with a scratch disk has made all its calls while a sibling
\* has only made its first
C8_Witness ==
  /\ mpc = "PrepareVm"
  /\ \E v, w \in VmSet :
       /\ vmHeap[v].disk_specs # <<>>
       /\ vmLog[v] = ExpectedPrepare(v)
       /\ Len(vmLog[w]) = 1

\* C9: in a Delete() that tears down, every VM has its instance deleted and
\* then, if that returned, its scratch disks; the firewall is revoked only
\* when every VM worker has ended; a Network is deleted only after the revoke;
\* deleted is false until all of this is over and, when it is set, every VM,
\* the firewall and every Network of the map have had their calls.
C9_DeleteOrder ==
  op = "Delete" =>
    /\ \A v \in VmIds : IsPrefix(vmLog[v], << <<"Delete">>, <<"DeleteScratchDisks">> >>)
    /\ fwLog # <<>> =>
         \A v \in VmSet : wpc[v] \in {Done, Failed} /\ vmLog[v] # <<>>
    /\ (\E n \in NetIds : netLog[n] # <<>>) => fwLog = <<"DisallowAllPorts">>
    /\ mpc \in {"DeleteVm", "DisallowAllPorts", "NetworkDelete"} => ~deleted
    /\ mpc = "DeleteReturn" =>
         /\ deleted
         /\ \A v \in VmSet :
              /\ vmLog[v] # <<>>
              /\ wpc[v] = Done => vmLog[v] = << <<"Delete">>, <<"DeleteScratchDisks">> >>
         /\ failures = {} => \A v \in VmSet : wpc[v] = Done
         /\ fwLog = <<"DisallowAllPorts">>
         /\ \A z \in DOMAIN networks : netLog[networks[z]] = <<"Delete">>

\* C9 witness: deleted has just been set on a plan of two VMs and two Networks
C9_Witness ==
  /\ mpc = "DeleteReturn" /\ deleted /\ failures = {}
  /\ Len(vms) >= 2 /\ Cardinality(DOMAIN networks) >= 2

\* C10: in a Prepare() of a plan with Networks, no PrepareVm call is made
\* before Create() has been called on every Network of the map and has
\* returned or raised.
C10_NetworksFirst ==
  (op = "Prepare" /\ DOMAIN networks # {}
     /\ (mpc = "PrepareVm" \/ \E v \in VmIds : wpc[v] # Idle \/ vmLog[v] # <<>>)) =>
    \A z \in DOMAIN networks :
      /\ netLog[networks[z]] = <<"Create">>
      /\ npc[networks[z]] # "Create"

\* C10 witness: a VM has been created after both Networks of the plan
C10_Witness ==
  /\ mpc = "PrepareVm" /\ Cardinality(DOMAIN networks) >= 2
  /\ \E v \in VmSet : vmLog[v] = << <<"Create">> >>

\* C11: every batch of Prepare() and Delete() calls its operation for every
\* item and returns only when every item's worker has returned or raised; a
\* worker that raises leaves every sibling worker where it was.
C11_RunToCompletion ==
  /\ [](/\ (op = "Prepare" /\ mpc = "PrepareVms") =>
             \A z \in DOMAIN networks :
               /\ netLog[networks[z]] = <<"Create">>
               /\ npc[networks[z]] \in {"done", "failed"}
        /\ (op = "Prepare" /\ mpc = "PrepareReturn") =>
             \A v \in Range(vms) : vmLog[v] # <<>> /\ wpc[v] \in {Done, Failed}
        /\ (op = "Delete" /\ mpc \in {"DisallowAllPorts", "NetworkDelete", "DeleteReturn"}) =>
             \A v \in Range(vms) : vmLog[v] # <<>> /\ wpc[v] \in {Done, Failed})
  /\ [][/\ \A v \in VmIds : (wpc[v] # Failed /\ wpc'[v] = Failed) =>
              \A w \in VmIds \ {v} : wpc'[w] = wpc[w]
        /\ \A n \in NetIds : (npc[n] # "failed" /\ npc'[n] = "failed") =>
              \A k \in NetIds \ {n} : npc'[k] = npc[k]]_vars

\* C11 witness: a Prepare batch of two VMs has returned; one VM raised at its
\* first call, the other made every call
C11_Witness ==
  /\ mpc = "PrepareReturn" /\ Len(vms) >= 2
  /\ \E v, w \in Range(vms) :
       /\ wpc[v] = Failed /\ Len(vmLog[v]) = 1
       /\ wpc[w] = Done /\ vmLog[w] = ExpectedPrepare(w)

\* C12: topology resolution hands back a plan only when no node section failed
\* for a missing key (image, vm_type, count) or a persistent disk whose logical
\* type the plan's provider does not support.
C12_ConfigurationErrorAborts ==
  ipc = "done" => \A s \in DOMAIN sections : cpc[s] # "failed"

\* the disk spec a declaration "<sizeGB>:<logicalType>:<mountPoint>" stands for
DeclaredSpec(pd) == [size |-> pd.size, type |-> DISK_TYPE[cloud][pd.type], mnt |-> pd.mnt]

Occurrences(q, x) == Cardinality({i \in DOMAIN q : q[i] = x})

\* C13: a node section resolved to its end, with count c and k persistent-disk
\* declarations, has a group of exactly c VMs, all its own, and each of them
\* carries exactly k disk specs, one per declaration, with the declaration's
\* size, aliased type and mount point; no other VM carries a spec of the section.
C13_TopologyParsing ==
  \A s \in DOMAIN sections :
    cpc[s] = "done" =>
      LET pds == sections[s].pds
          want == [i \in DOMAIN pds |-> DeclaredSpec(pds[i])]
      IN /\ Len(vm_dict[s]) = sections[s].count
         /\ vm_dict[s] = cvms[s]
         /\ \A i, j \in DOMAIN cvms[s] : i # j => cvms[s][i] # cvms[s][j]
         /\ \A t \in DOMAIN sections \ {s} : \A v \in Range(cvms[s]) : ~InSeq(v, vm_dict[t])
         /\ \A v \in Range(vm_dict[s]) :
              /\ Len(vmHeap[v].disk_specs) = Len(pds)
              /\ \A i \in DOMAIN pds :
                   Occurrences(vmHeap[v].disk_specs, want[i]) = Occurrences(want, want[i])

\* C13 witness: a section of two or more VMs and two declarations has been
\* resolved next to a section that declares no disk
C13_Witness ==
  /\ ipc = "done"
  /\ \E s, t \in DOMAIN sections :
       /\ cpc[s] = "done" /\ sections[s].count >= 2 /\ Len(sections[s].pds) = 2
       /\ \A v \in Range(vm_dict[s]) : Len(vmHeap[v].disk_specs) = 2
       /\ cpc[t] = "done" /\ sections[t].pds = <<>> /\ vm_dict[t] # <<>>
       /\ \A v \in Range(vm_dict[t]) : vmHeap[v].disk_specs = <<>>

C15_ExclusiveFirewall ==
  Cardinality({v \in VmIds : wpc[v].at = Entered.AllowPort}) <= 1

\* the values of a summary that line 135-137 joined with commas
Joined2Values(q) == [i \in 1..((Len(q) + 1) \div 2) |-> q[2 * i - 1]]

NoDuplicates(q) == \A i, j \in DOMAIN q : i # j => q[i] # q[j]

\* C16: once topology-driven resolution has finished, the zone, image and
\* machine-type summaries each hold no value twice.
C16_SummariesWithoutDuplicates ==
  (mode = "config" /\ ipc = "done") =>
    /\ NoDuplicates(Joined2Values(zones))
    /\ NoDuplicates(Joined2Values(image))
    /\ NoDuplicates(Joined2Values(machine_type))

\* the place of a lifecycle state in Unprovisioned, Created, BootWaiting,
\* Prepared, Deleted
Rank(st) ==
  CASE st = "Unprovisioned" -> 0 [] st = "Created" -> 1 [] st = "BootWaiting" -> 2
    [] st = "Prepared" -> 3 [] st = "Deleted" -> 4

\* C17: no step moves a VM backwards along Unprovisioned, Created,
\* BootWaiting, Prepared, Deleted, and vm.Delete() is never called on a VM that
\* is still Unprovisioned.
C17_LifecycleForwardOnly ==
  [][\A v \in VmIds :
       /\ Rank(vmState'[v]) >= Rank(vmState[v])
       /\ (mpc = "DeleteVm" /\ wpc[v].at = "Delete" /\ vmLog'[v] # vmLog[v]) =>
            vmState[v] # "Unprovisioned"]_vars

\* C18: the Network a VM's spec refers to is the Network the plan's map holds
\* for the VM's zone.
C18_VmsShareZoneNetwork ==
  \A v \in DOMAIN vmHeap :
    ~vmHeap[v].static =>
      /\ vmHeap[v].zone \in DOMAIN networks
      /\ vmHeap[v].network = networks[vmHeap[v].zone]

Live == {"Created", "BootWaiting", "Prepared"}

\* C19: no step of Prepare() changes the plan's VM list, node groups or Network
\* map; every VM whose Create succeeded and every Network a Prepare() created
\* is in the plan; and a Delete() that tears down has called vm.Delete() on
\* every VM still live and, at its end, Delete() on every Network.
C19_CreatedStayTracked ==
  /\ [][op' = "Prepare" => UNCHANGED <<vms, vm_dict, networks>>]_vars
  /\ [](/\ \A v \in VmIds : vmState[v] \in Live => v \in Range(vms)
        /\ op = "Prepare" =>
             \A n \in NetIds : npc[n] = "done" => n \in Range(networks)
        /\ (op = "Delete" /\ mpc \in {"DisallowAllPorts", "NetworkDelete", "DeleteReturn"}) =>
             \A v \in VmIds : vmState[v] \in Live => vmLog[v] = << <<"Delete">> >>
        /\ (op = "Delete" /\ mpc = "DeleteReturn") =>
             \A n \in NetIds : netLog[n] = <<"Delete">>)

\* C19 witness: a Delete() after a Prepare() in which one VM's Create raised
\* and a sibling was prepared: the batch is about to delete the sibling
C19_Witness ==
  /\ op = "Delete" /\ mpc = "DeleteVm" /\ nprepares = 1
  /\ \E v, w \in Range(vms) :
       /\ vmState[v] = "Unprovisioned" /\ wpc[v] # Idle
       /\ vmState[w] = "Prepared" /\ wpc[w] = At("Delete")

RECURSIVE SumOfCounts(_)
SumOfCounts(n) == IF n = 0 THEN 0 ELSE sections[n].count + SumOfCounts(n - 1)

\* C20: once a topology all of whose sections were resolved to their end has
\* been resolved, every VM of the plan is in the group of exactly one section,
\* the group of a section holds exactly that section's count of VMs, all built
\* for that section, and num_vms is the sum of the sections' counts.
C20_GroupIndexConsistent ==
  (mode = "config" /\ ipc = "done" /\ \A s \in DOMAIN sections : cpc[s] = "done") =>
    /\ NoDuplicates(vms)
    /\ Range(vms) = DOMAIN vmHeap
    /\ \A v \in Range(vms) :
         Cardinality({s \in DOMAIN sections : InSeq(v, vm_dict[s])}) = 1
    /\ \A s \in DOMAIN sections :
         /\ Len(vm_dict[s]) = sections[s].count
         /\ NoDuplicates(vm_dict[s])
         /\ \A v \in Range(vm_dict[s]) :
              /\ v \in Range(vms)
              /\ vmHeap[v].image = sections[s].image
              /\ vmHeap[v].zone = SectionZone(s)
    /\ num_vms = SumOfCounts(Len(sections))

\* C20 witness: a topology of two sections, one of them with two or more VMs,
\* has been resolved
C20_Witness ==
  /\ mode = "config" /\ ipc = "done" /\ Len(sections) >= 2
  /\ \A s \in DOMAIN sections : cpc[s] = "done"
  /\ \E s \in DOMAIN sections : sections[s].count >= 2
  /\ num_vms >= 3

====
